---- MODULE Spec2Model ----
(***************************************************************************)
(* A model of binstruct.js: the schema engine (StructDef, its definers and *)
(* field registration), the per-type codecs, the RecordView accessors and  *)
(* pack / unpack with the resolution of the one deferred text field.       *)
(*                                                                         *)
(* Conventions.  A Buffer is a sequence of bytes (index 1 is offset 0).    *)
(* A JavaScript value is a record [type, num, seq]; a field name is a      *)
(* record [type, str, num] because an unnamed field's name is a number.    *)
(* JavaScript numbers are integers of the 32-bit signed range here, and    *)
(* an unsigned 32-bit word read from a buffer is kept as its four bytes,   *)
(* most significant first.  noAssert has its default value, false.         *)
(***************************************************************************)
EXTENDS Integers, Sequences, FiniteSets, TLC

VARIABLES
    fields,        \* StructDef.fields: the FieldSpecs in declaration order
    size,          \* StructDef.size
    staticSized,   \* StructDef.staticSized
    littleEndian,  \* StructDef.littleEndian
    int64mode,     \* StructDef.int64mode
    props,         \* the accessors defined on Wrapper.prototype, by name
    call,          \* the last call: operation, error thrown, arguments
    data,          \* the mapping last given to pack or returned by unpack
    buf,           \* the buffer the last call wrote or read
    pre,           \* the buffer as it was when the last field write began
    rt             \* the round trip in progress: stage, values, bytes

vars == <<fields, size, staticSized, littleEndian, int64mode, props, call,
          data, buf, pre, rt>>

\* ------------------------------------------------------------------ bounds

\* The most fields a schema is given.
MaxFields == 3

\* The most fields a schema is given where the codecs are exercised.
MaxCodecFields == 2

\* The length of the buffers a caller supplies to pack and to wrap.
CallerLen == 10

\* ------------------------------------------------------ values and names

Undef == [type |-> "undefined", num |-> 0, seq |-> <<>>]
Num(n) == [type |-> "number", num |-> n, seq |-> <<>>]
Text(chars) == [type |-> "string", num |-> 0, seq |-> chars]
Buf(bytes) == [type |-> "buffer", num |-> 0, seq |-> bytes]
Infinite(sign) == [type |-> "infinity", num |-> sign, seq |-> <<>>]

Str(s) == [type |-> "string", str |-> s, num |-> 0]
Idx(k) == [type |-> "number", str |-> "", num |-> k]

\* JavaScript truthiness, as `x || 0` uses it.
Truthy(v) ==
    CASE v.type = "undefined" -> FALSE
      [] v.type = "number" -> v.num # 0
      [] v.type = "string" -> v.seq # <<>>
      [] OTHER -> TRUE

OrZero(v) == IF Truthy(v) THEN v ELSE Num(0)

Pow2(n) == 2 ^ n

\* ------------------------------------------------------------ bit helpers

RECURSIVE BitOr(_, _, _)
BitOr(a, b, n) ==
    IF n = 0 THEN 0
    ELSE (IF a % 2 = 1 \/ b % 2 = 1 THEN 1 ELSE 0)
         + (2 * BitOr(a \div 2, b \div 2, n - 1))

\* a | b on two 32-bit words kept as bytes.
WordOr(a, b) ==
    <<BitOr(a[1], b[1], 8), BitOr(a[2], b[2], 8),
      BitOr(a[3], b[3], 8), BitOr(a[4], b[4], 8)>>

\* ToInt32 of a 32-bit word kept as bytes: the signed value.
ToInt32(w) ==
    ((IF w[1] >= 128 THEN w[1] - 256 ELSE w[1]) * 16777216)
    + (w[2] * 65536) + (w[3] * 256) + w[4]

\* The four bytes of an unsigned 32-bit value v, most significant first.
WordOf(v) ==
    <<v \div 16777216, (v \div 65536) % 256, (v \div 256) % 256, v % 256>>

RECURSIVE Reverse(_)
Reverse(s) == IF s = <<>> THEN <<>> ELSE Reverse(Tail(s)) \o <<Head(s)>>

\* The bytes of b from offset off (0-based), n of them.
Bytes(b, off, n) == SubSeq(b, off + 1, off + n)

\* b with the bytes s stored from offset off; bytes beyond the end are dropped.
Store(b, off, s) ==
    IF off >= Len(b) THEN b
    ELSE LET k == IF Len(s) < Len(b) - off THEN Len(s) ELSE Len(b) - off
         IN SubSeq(b, 1, off) \o SubSeq(s, 1, k) \o SubSeq(b, off + k + 1, Len(b))

\* n bytes, all v.
RECURSIVE Filled(_, _)
Filled(n, v) == IF n <= 0 THEN <<>> ELSE <<v>> \o Filled(n - 1, v)

\* ------------------------------------------------------------------ UTF-8

\* The UTF-8 bytes of one code point of the basic plane.
Utf8Char(cp) ==
    IF cp < 128 THEN <<cp>>
    ELSE IF cp < 2048 THEN <<192 + (cp \div 64), 128 + (cp % 64)>>
    ELSE <<224 + (cp \div 4096), 128 + ((cp \div 64) % 64), 128 + (cp % 64)>>

RECURSIVE Utf8Encode(_)
Utf8Encode(chars) ==
    IF chars = <<>> THEN <<>>
    ELSE Utf8Char(Head(chars)) \o Utf8Encode(Tail(chars))

IsCont(b) == b >= 128 /\ b <= 191

\* buf.toString('utf8'): an ill-formed byte decodes to U+FFFD.  Sequences of
\* one, two and three bytes are decoded; a longer lead byte counts as ill-formed.
RECURSIVE Utf8Decode(_)
Utf8Decode(bs) ==
    IF bs = <<>> THEN <<>>
    ELSE LET b == bs[1] IN
         IF b < 128 THEN <<b>> \o Utf8Decode(Tail(bs))
         ELSE IF b >= 194 /\ b <= 223 /\ Len(bs) >= 2 /\ IsCont(bs[2])
              THEN <<((b - 192) * 64) + (bs[2] - 128)>>
                   \o Utf8Decode(SubSeq(bs, 3, Len(bs)))
         ELSE IF b >= 224 /\ b <= 239 /\ Len(bs) >= 3
                 /\ IsCont(bs[2]) /\ IsCont(bs[3])
              THEN <<((b - 224) * 4096) + ((bs[2] - 128) * 64) + (bs[3] - 128)>>
                   \o Utf8Decode(SubSeq(bs, 4, Len(bs)))
         ELSE <<65533>> \o Utf8Decode(Tail(bs))

\* buf.write(string, offset): the bytes of the leading characters that fit
\* between offset and the end of the buffer; no character is written in part.
RECURSIVE FittingBytes(_, _)
FittingBytes(chars, room) ==
    IF chars = <<>> THEN <<>>
    ELSE LET c == Utf8Char(Head(chars)) IN
         IF Len(c) > room THEN <<>>
         ELSE c \o FittingBytes(Tail(chars), room - Len(c))

BufWrite(b, chars, off) ==
    IF off >= Len(b) THEN b
    ELSE Store(b, off, FittingBytes(chars, Len(b) - off))

\* ----------------------------------------------------------------- codecs
\* A writer yields [buf, err], a reader [val, err]; err is "none" or the
\* kind of the error thrown.

Wrote(b, e) == [buf |-> b, err |-> e]
Got(v, e) == [val |-> v, err |-> e]

IntTypes ==
    {"uint8", "uint16be", "uint16le",
     "int64be", "int64le", "uint64be", "uint64le"}

IntSize(type) ==
    CASE type = "uint8" -> 1
      [] type \in {"uint16be", "uint16le"} -> 2
      [] OTHER -> 8

Is64(type) == type \in {"int64be", "int64le", "uint64be", "uint64le"}
IsSigned(type) == type \in {"int64be", "int64le"}
IsLE(type) == type \in {"uint16le", "int64le", "uint64le"}

\* Buffer.prototype.writeUInt8 / writeUInt16BE / writeUInt16LE / writeUInt32BE /
\* writeUInt32LE with noAssert false: the value is checked, then the offset.
WriteUInt(b, v, off, n, le) ==
    IF v.type # "number" \/ v.num < 0 \/ (n < 4 /\ v.num >= Pow2(8 * n))
    THEN Wrote(b, "TypeError")
    ELSE IF off + n > Len(b) THEN Wrote(b, "RangeError")
    ELSE LET be == SubSeq(WordOf(v.num), 5 - n, 4) IN
         Wrote(Store(b, off, IF le THEN Reverse(be) ELSE be), "none")

\* Buffer.prototype.readUInt8 / readUInt16BE / readUInt16LE.
ReadUInt(b, off, n, le) ==
    IF off + n > Len(b) THEN Got(Undef, "RangeError")
    ELSE LET raw == Bytes(b, off, n)
             be == IF le THEN Reverse(raw) ELSE raw
         IN Got(Num(IF n = 1 THEN be[1] ELSE (be[1] * 256) + be[2]), "none")

\* val >> 32 and val & 0xFFFFFFFF: a shift count is taken modulo 32, and
\* both results are ToInt32 values.
ShiftRight(v, n) ==
    LET d == Pow2(n % 32) IN (v - (v % d)) \div d
AndAllOnes(v) == v

\* createInt64Writer(signed, littleEndian): writeInt64.
Int64Writer(le, b, v, off) ==
    IF v.type = "number" THEN
        LET hi == Num(ShiftRight(v.num, 32))
            lo == Num(AndAllOnes(v.num))
            w1 == WriteUInt(b, hi, IF le THEN off + 4 ELSE off, 4, le)
        IN IF w1.err # "none" THEN w1
           ELSE WriteUInt(w1.buf, lo, IF le THEN off ELSE off + 4, 4, le)
    ELSE IF v.type = "buffer" THEN
        IF Len(v.seq) # 8 THEN Wrote(b, "Error")
        ELSE Wrote(Store(b, off, v.seq), "none")
    ELSE Wrote(b, "none")

\* hi & 0xFFF00000, a ToInt32 value.
LostBits(hi) == ToInt32(<<hi[1], hi[2] - (hi[2] % 16), 0, 0>>)

\* lostBits !== 0xFFF00000: the literal is the positive number 4293918720,
\* that is 65520 * 65536, compared with a ToInt32 value.
NotAllOnes(lostBits) ==
    ~(lostBits >= 0 /\ lostBits \div 65536 = 65520 /\ lostBits % 65536 = 0)

\* ((hi & 0x001FFFFF) << 32) | lo & 0xFFFFFFFF: the shift by 32 is a shift
\* by 0, and the result of | is a ToInt32 value.
Int64Value(hi, lo) ==
    ToInt32(WordOr(<<0, hi[2] % 32, hi[3], hi[4]>>, lo))

\* createInt64Reader(signed, littleEndian): readInt64AsNumber.
Int64Reader(signed, le, mode, b, off) ==
    IF off + 8 > Len(b) THEN Got(Undef, "Error")
    ELSE IF mode \in {"lossy", "strict"} THEN
        LET raw == Bytes(b, off, 8)
            hi == IF le THEN Reverse(SubSeq(raw, 5, 8)) ELSE SubSeq(raw, 1, 4)
            lo == IF le THEN Reverse(SubSeq(raw, 1, 4)) ELSE SubSeq(raw, 5, 8)
            lostBits == LostBits(hi)
        IN IF lostBits # 0 /\ (~signed \/ NotAllOnes(lostBits))
           THEN IF mode = "strict" THEN Got(Undef, "Error")
                ELSE IF ~signed \/ hi[1] < 128 THEN Got(Infinite(1), "none")
                ELSE Got(Infinite(-1), "none")
           ELSE Got(Num(Int64Value(hi, lo)), "none")
    ELSE IF mode \in {"slice", "copy"} THEN Got(Buf(Bytes(b, off, 8)), "none")
    ELSE Got(Undef, "none")

\* createStringReader(size): readString.
StringReader(sz, b, off) ==
    IF off + sz > Len(b) THEN Got(Undef, "Error")
    ELSE Got(Text(Utf8Decode(Bytes(b, off, sz))), "none")

\* createBufferReader(size): readbuffer.
BufferReader(sz, b, off) ==
    IF off + sz > Len(b) THEN Got(Undef, "Error")
    ELSE Got(Buf(Bytes(b, off, sz)), "none")

\* A faulty variant of StringWriter: a block given for a text field is copied
\* before its length is compared with the field's size.
StringWriterCopiesFirst(sz, b, v, off) ==
    IF v.type = "string" THEN
        IF off + sz > Len(b) THEN Wrote(b, "RangeError")
        ELSE Wrote(BufWrite(Store(b, off, Filled(sz, 0)), v.seq, off), "none")
    ELSE IF v.type = "buffer" THEN
        IF Len(v.seq) # sz THEN Wrote(Store(b, off, v.seq), "Error")
        ELSE Wrote(Store(b, off, v.seq), "none")
    ELSE Wrote(b, "none")

\* createStringWriter(size): writeString.  fill throws when the range ends
\* beyond the buffer; copy stores the bytes that fit.
StringWriter(sz, b, v, off) ==
    IF v.type = "string" THEN
        IF off + sz > Len(b) THEN Wrote(b, "RangeError")
        ELSE Wrote(BufWrite(Store(b, off, Filled(sz, 0)), v.seq, off), "none")
    ELSE IF v.type = "buffer" THEN
        IF Len(v.seq) # sz THEN Wrote(b, "Error")
        ELSE Wrote(Store(b, off, v.seq), "none")
    ELSE Wrote(b, "none")

\* createBufferWriter(size): writebuffer.
BufferWriter(sz, b, v, off) ==
    IF v.type = "buffer" THEN
        IF Len(v.seq) # sz THEN Wrote(b, "Error")
        ELSE Wrote(Store(b, off, v.seq), "none")
    ELSE Wrote(b, "none")

\* ------------------------------------------------------------ FieldSpecs

\* f.read and f.write: undefined, the Buffer.prototype functions (or the
\* 64-bit closures) named by the field's type, or the text / block closures
\* created for one size.
NoCodec == [fn |-> "undefined", size |-> 0]
NativeCodec(type) == [fn |-> "native", size |-> IntSize(type)]
StringCodec(sz) == [fn |-> "string", size |-> sz]
BufferCodec(sz) == [fn |-> "buffer", size |-> sz]

\* The object literal f of a definer; offset is set on registration.
NewField(name, type, sz, codec) ==
    [name |-> name, type |-> type, size |-> sz, offset |-> 0,
     hasValue |-> FALSE, value |-> Undef, codec |-> codec,
     hasRef |-> FALSE, sizeFieldName |-> ""]

\* this.fields.find(field => field.name === name): the index, 0 for undefined.
FindField(fs, name) ==
    IF \E i \in 1..Len(fs) : fs[i].name = name
    THEN CHOOSE i \in 1..Len(fs) :
            /\ fs[i].name = name
            /\ \A j \in 1..(i - 1) : fs[j].name # name
    ELSE 0

\* this.fields.find(field => field.sizeFieldName != undefined).
FindDeferred(fs) ==
    IF \E i \in 1..Len(fs) : fs[i].hasRef
    THEN CHOOSE i \in 1..Len(fs) :
            /\ fs[i].hasRef
            /\ \A j \in 1..(i - 1) : ~fs[j].hasRef
    ELSE 0

\* Object.defineProperty(this.Wrapper.prototype, f.name, desc) and
\* Object.defineProperty(this, f.name, ...): a property that is not
\* configurable cannot be made configurable nor be given another getter,
\* setter or value.  live: the accessors close over the FieldSpec that is in
\* this.fields.
DefineProperty(pr, name, configurable, hasAcc, live) ==
    IF name \notin DOMAIN pr
    THEN [props |-> pr @@ (name :> [configurable |-> configurable,
                                    hasAcc |-> hasAcc, live |-> live]),
          err |-> "none"]
    ELSE IF ~pr[name].configurable
    THEN [props |-> pr,
          err |-> IF configurable \/ hasAcc THEN "TypeError" ELSE "none"]
    ELSE [props |-> [pr EXCEPT ![name] =
                        [configurable |-> configurable,
                         hasAcc |-> hasAcc \/ pr[name].hasAcc,
                         live |-> IF hasAcc THEN live ELSE pr[name].live]],
          err |-> "none"]

\* A faulty variant of IsNewName: the name is not looked up.
IsNewNameAlways(fs, f) == TRUE

\* Whether defineField registers f as a new field.
IsNewName(fs, f) == FindField(fs, f.name) = 0

\* StructDef.prototype.field.  own: f is the FieldSpec already in this.fields
\* (the re-registration of pack and unpack), not a definer's new object.
DefineField(fs, sz, pr, f, own) ==
    LET fresh == IsNewName(fs, f)
        dp == DefineProperty(pr, f.name, f.hasRef,
                             f.codec.fn # "undefined", fresh \/ own)
    IN [fields |-> IF fresh THEN Append(fs, [f EXCEPT !.offset = sz]) ELSE fs,
        size |-> IF fresh THEN sz + f.size ELSE sz,
        props |-> dp.props,
        err |-> dp.err]

\* --------------------------------------------------------------- definers

\* What a call leaves in `call`: the operation; the error it threw ("none"
\* if it returned); the field it was about (the field a definer was given, the
\* field whose read or write threw, the property assigned) and that field's
\* width; for a definer, whether the schema had no field of that name before
\* the call; for pack, whether the caller gave the buffer.
Call(op, err, name, width, fresh, given) ==
    [op |-> op, err |-> err, name |-> name, width |-> width,
     fresh |-> fresh, given |-> given]

NoData == <<>>
NoRoundTrip == [stage |-> 0, values |-> NoData, bytes |-> <<>>]

\* The definers without a be/le suffix use the schema's byte order.
DefaultEndian(alias, le) ==
    IF alias = "uint8" THEN alias
    ELSE IF alias = "uint16" THEN (IF le THEN "uint16le" ELSE "uint16be")
    ELSE IF alias = "int64" THEN (IF le THEN "int64le" ELSE "int64be")
    ELSE (IF le THEN "uint64le" ELSE "uint64be")

\* The characters of the strings the model passes to the text definer.
Chars(str) ==
    CASE str = "len" -> <<108, 101, 110>>
      [] str = "ab" -> <<97, 98>>
      [] OTHER -> <<>>

\* The schema is still being built: no pack, unpack or wrap call was made.
Building == call.op \in {"new", "define"}

Registered(r, op) ==
    /\ fields' = r.fields
    /\ size' = r.size
    /\ props' = r.props
    /\ call' = op
    /\ data' = NoData
    /\ buf' = <<>>
    /\ pre' = <<>>
    /\ rt' = NoRoundTrip
    /\ UNCHANGED <<littleEndian, int64mode>>

\* defineIntField(name?, value?): an argument that is falsy is ignored, a
\* number is the default value, a string is the name; without a name the
\* field is named by its index.
DefineInt(alias, nm, dflt) ==
    LET type == DefaultEndian(alias, littleEndian)
        f0 == NewField(IF nm = "" THEN Idx(Len(fields)) ELSE Str(nm),
                       type, IntSize(type), NativeCodec(type))
        f == IF dflt # 0
             THEN [f0 EXCEPT !.hasValue = TRUE, !.value = Num(dflt)]
             ELSE f0
    IN /\ Building
       /\ \E r \in {DefineField(fields, size, props, f, FALSE)} :
             Registered(r, Call("define", r.err, f.name, f.size,
                                FindField(fields, f.name) = 0, FALSE))
       /\ UNCHANGED staticSized

\* defineStringField(name, size): a number as second argument.
DefineStringSized(nm, sz) ==
    LET f == NewField(Str(nm), "string", sz, StringCodec(sz))
    IN /\ Building
       /\ \E r \in {DefineField(fields, size, props, f, FALSE)} :
             Registered(r, Call("define", r.err, f.name, f.size,
                                FindField(fields, f.name) = 0, FALSE))
       /\ UNCHANGED staticSized

\* defineStringField(name, string): the name of a registered field makes the
\* field deferred; any other string is the field's default value.
DefineStringNamed(nm, arg) ==
    LET ref == FindField(fields, Str(arg))
        f0 == NewField(Str(nm), "string", 0, NoCodec)
        f == IF ref = 0
             THEN [f0 EXCEPT !.hasValue = TRUE,
                             !.value = Buf(Utf8Encode(Chars(arg))),
                             !.size = Len(Chars(arg)),
                             !.codec = StringCodec(Len(Chars(arg)))]
             ELSE [f0 EXCEPT !.hasRef = TRUE,
                             !.sizeFieldName = fields[ref].name.str]
    IN /\ Building
       /\ \E r \in {DefineField(fields, size, props, f, FALSE)} :
             Registered(r, Call("define", r.err, f.name, f.size,
                                FindField(fields, f.name) = 0, FALSE))
       /\ staticSized' = (staticSized /\ ref = 0)

\* defineBufferField(name, size): a number as second argument.
DefineBuffer(nm, sz) ==
    LET f == NewField(Str(nm), "buffer", sz, BufferCodec(sz))
    IN /\ Building
       /\ \E r \in {DefineField(fields, size, props, f, FALSE)} :
             Registered(r, Call("define", r.err, f.name, f.size,
                                FindField(fields, f.name) = 0, FALSE))
       /\ UNCHANGED staticSized

\* ------------------------------------------------------------------- pack

\* f.write.apply(buf, [value, offset, noAssert]).
WriteField(f, b, v, off) ==
    CASE f.codec.fn = "native" ->
            IF Is64(f.type) THEN Int64Writer(IsLE(f.type), b, v, off)
            ELSE WriteUInt(b, v, off, IntSize(f.type), IsLE(f.type))
      [] f.codec.fn = "string" -> StringWriter(f.codec.size, b, v, off)
      [] f.codec.fn = "buffer" -> BufferWriter(f.codec.size, b, v, off)
      [] OTHER -> Wrote(b, "none")

\* (f.name in data ? data[f.name] : f.value) || 0
ValueFor(f, d) ==
    OrZero(IF f.name \in DOMAIN d THEN d[f.name]
           ELSE IF f.hasValue THEN f.value ELSE Undef)

\* this.fields.forEach(writeField), from field i on: the buffer, the error
\* that ended the pass, the index of the field whose write threw (0 for
\* none) and the buffer as it was when the last write began.
RECURSIVE WriteFields(_, _, _, _, _)
WriteFields(fs, i, d, b, off) ==
    IF i > Len(fs) THEN [buf |-> b, err |-> "none", at |-> 0, pre |-> b]
    ELSE IF fs[i].codec.fn = "undefined"
    THEN WriteFields(fs, i + 1, d, b, off)
    ELSE LET w == WriteField(fs[i], b, ValueFor(fs[i], d), off + fs[i].offset)
         IN IF w.err # "none"
            THEN [buf |-> w.buf, err |-> w.err, at |-> i, pre |-> b]
            ELSE WriteFields(fs, i + 1, d, w.buf, off)

\* The size the deferred field is given by pack:
\* (sizeIndicatiorField.name in data ? data[...] : sizeIndicatiorField.value) || 0
PackSize(sizeField, d) == ValueFor(sizeField, d).num

\* A faulty variant of ResolvedTotal: the new size is added and the size of
\* the earlier resolution is not taken off.
ResolvedTotalAccumulates(sz, oldSize, newSize) == sz + newSize

\* The schema's size once the deferred field has its new size.
ResolvedTotal(sz, oldSize, newSize) == sz + (newSize - oldSize)

\* A faulty variant of Resolved: the new size is stored, the reader and the
\* writer are not created again.
ResolvedSizeOnly(f, newSize) == [f EXCEPT !.size = newSize]

\* The deferred field with its new size and the text codec for that size.
Resolved(f, newSize) ==
    [f EXCEPT !.size = newSize, !.codec = StringCodec(newSize)]

\* `if (!this.staticSized) { ... }` of writeFieldsIntoBuf: the schema after
\* the deferred field is resolved and registered again.  Without a deferred
\* field, or without the field it names, a property of undefined is read.
PackResolve(fs, sz, pr, d) ==
    LET vi == FindDeferred(fs)
        si == IF vi = 0 THEN 0 ELSE FindField(fs, Str(fs[vi].sizeFieldName))
    IN IF vi = 0 \/ si = 0
       THEN [fields |-> fs, size |-> sz, props |-> pr, err |-> "TypeError"]
       ELSE LET n == PackSize(fs[si], d)
                f == Resolved(fs[vi], n)
                fs1 == [fs EXCEPT ![vi] = f]
            IN DefineField(fs1, ResolvedTotal(sz, fs[vi].size, n), pr, f, TRUE)

\* new Buffer(n): n bytes, not initialised.
Allocate(n, fill) == Filled(n, fill)

\* writeFieldsIntoBuf(data, buf) with offset 0: b is the caller's buffer when
\* given, else the buffer is allocated with its bytes all `fill`.
PackResult(fs, sz, pr, static, d, given, b, fill) ==
    LET s == IF static
             THEN [fields |-> fs, size |-> sz, props |-> pr, err |-> "none"]
             ELSE PackResolve(fs, sz, pr, d)
    IN IF s.err # "none"
       THEN [schema |-> s, buf |-> IF given THEN b ELSE <<>>,
             err |-> s.err, at |-> 0, pre |-> IF given THEN b ELSE <<>>]
       ELSE LET b0 == IF given THEN b ELSE Allocate(s.size, fill)
                w == WriteFields(s.fields, 1, d, b0, 0)
            IN [schema |-> s, buf |-> w.buf, err |-> w.err, at |-> w.at,
                pre |-> w.pre]

\* The name of field i of fs, or of no field for i = 0.
NameAt(fs, i) == IF i = 0 THEN Str("") ELSE fs[i].name
WidthAt(fs, i) == IF i = 0 THEN 0 ELSE fs[i].size

Pack(d, given, b, fill, stage) ==
    \E r \in {PackResult(fields, size, props, staticSized, d, given, b, fill)} :
       /\ fields' = r.schema.fields
       /\ size' = r.schema.size
       /\ props' = r.schema.props
       /\ call' = Call("pack", r.err, NameAt(r.schema.fields, r.at),
                       WidthAt(r.schema.fields, r.at), FALSE, given)
       /\ data' = d
       /\ buf' = r.buf
       /\ pre' = r.pre
       /\ rt' = IF stage = 1
                THEN [stage |-> 1, values |-> d, bytes |-> r.buf]
                ELSE [rt EXCEPT !.stage = stage]
       /\ UNCHANGED <<staticSized, littleEndian, int64mode>>

\* ----------------------------------------------------------------- unpack

\* f.read.apply(buf, [offset, noAssert, def, field]); the field carries no
\* int64mode of its own, so the schema's is used.
ReadField(f, b, off, mode) ==
    CASE f.codec.fn = "native" ->
            IF Is64(f.type)
            THEN Int64Reader(IsSigned(f.type), IsLE(f.type), mode, b, off)
            ELSE ReadUInt(b, off, IntSize(f.type), IsLE(f.type))
      [] f.codec.fn = "string" -> StringReader(f.codec.size, b, off)
      [] f.codec.fn = "buffer" -> BufferReader(f.codec.size, b, off)
      [] OTHER -> Got(Undef, "none")

\* A faulty variant of IsDeferred: every text field is resolved again.
IsDeferredAnyText(f) == f.type = "string"

\* `if (f.sizeFieldName)`: the field is resolved before it is read.
IsDeferred(f) == f.hasRef

\* data[f.sizeFieldName]: the size the deferred field is given by unpack
\* (-1 stands for the NaN that undefined makes).
UnpackSize(f, d) ==
    IF Str(f.sizeFieldName) \in DOMAIN d /\ d[Str(f.sizeFieldName)].type = "number"
    THEN d[Str(f.sizeFieldName)].num
    ELSE 0 - 1

\* A faulty variant of IsKey: the values of unnamed fields are kept too.
IsKeyAlways(name) == TRUE

\* typeof(f.name) !== 'number': the field's value goes into the record.
IsKey(name) == name.type # "number"

\* this.fields.forEach(readField), from field i on.
RECURSIVE ReadFields(_, _, _, _, _, _, _)
ReadFields(fs, sz, pr, i, d, b, mode) ==
    IF i > Len(fs)
    THEN [fields |-> fs, size |-> sz, props |-> pr, data |-> d,
          err |-> "none", at |-> 0]
    ELSE LET s == IF IsDeferred(fs[i])
                  THEN LET n == UnpackSize(fs[i], d)
                           f == Resolved(fs[i], n)
                       IN DefineField([fs EXCEPT ![i] = f],
                                      ResolvedTotal(sz, fs[i].size, n),
                                      pr, f, TRUE)
                  ELSE [fields |-> fs, size |-> sz, props |-> pr,
                        err |-> "none"]
             f == s.fields[i]
         IN IF s.err # "none"
            THEN [fields |-> s.fields, size |-> s.size, props |-> s.props,
                  data |-> d, err |-> s.err, at |-> i]
            ELSE IF f.codec.fn = "undefined"
            THEN ReadFields(s.fields, s.size, s.props, i + 1, d, b, mode)
            ELSE LET g == ReadField(f, b, f.offset, mode)
                 IN IF g.err # "none"
                    THEN [fields |-> s.fields, size |-> s.size,
                          props |-> s.props, data |-> d, err |-> g.err,
                          at |-> i]
                    ELSE ReadFields(s.fields, s.size, s.props, i + 1,
                                    IF IsKey(f.name)
                                    THEN (f.name :> g.val) @@ d ELSE d,
                                    b, mode)

\* readFieldsFromBuf(buf) with offset 0 and no target constructor.
Unpack(b, stage) ==
    \E r \in {ReadFields(fields, size, props, 1, NoData, b, int64mode)} :
       /\ fields' = r.fields
       /\ size' = r.size
       /\ props' = r.props
       /\ call' = Call("unpack", r.err, NameAt(r.fields, r.at),
                       WidthAt(r.fields, r.at), FALSE, FALSE)
       /\ data' = r.data
       /\ buf' = b
       /\ pre' = b
       /\ rt' = [rt EXCEPT !.stage = stage]
       /\ UNCHANGED <<staticSized, littleEndian, int64mode>>

\* ------------------------------------------------------------- RecordView

\* wrap(buf)[name] = value: the setter that defineField installed, when the
\* property has one; it writes through the FieldSpec at the field's offset.
SetField(nm, v, b) ==
    \E i \in {FindField(fields, Str(nm))} :
       /\ i # 0
       /\ Str(nm) \in DOMAIN props
       /\ props[Str(nm)].hasAcc /\ props[Str(nm)].live
       /\ \E w \in {WriteField(fields[i], b, v, fields[i].offset)} :
             /\ call' = Call("set", w.err, Str(nm), fields[i].size, FALSE,
                             TRUE)
             /\ data' = (Str(nm) :> v)
             /\ buf' = w.buf
             /\ pre' = b
             /\ rt' = NoRoundTrip
             /\ UNCHANGED <<fields, size, staticSized, littleEndian,
                            int64mode, props>>

\* ------------------------------------------------------------- the inputs

\* The int64mode the schemas are constructed with: the default, without an
\* int64mode option.
Modes == {"strict"}

\* A definer may be called while the schema has fewer than `limit` fields, or
\* with a name the schema already has.
CanDefine(limit, nm) ==
    \/ Len(fields) < limit
    \/ nm # "" /\ FindField(fields, Str(nm)) # 0

NamesOf(fs) == {fs[i].name : i \in 1..Len(fs)}

Restrict(d, names) == [k \in (DOMAIN d) \cap names |-> d[k]]

\* The mappings given to pack, cut down to the schema's names (pack looks up
\* no other key).
PackData(base) == {Restrict(d, NamesOf(fields)) : d \in base}

\* The bytes an allocated buffer may hold, and the one a caller's buffer holds.
AllocFills == {0, 170}
CallerBuf == Filled(CallerLen, 255)

\* The integer definer calls: definer, name ("" for none), default value
\* (0 for none).
LayoutInts ==
    {<<"uint8", "len", 2>>, <<"uint16", "len", 0>>, <<"uint8", "x", 0>>,
     <<"uint8", "", 0>>, <<"uint16", "", 0>>}

LayoutData ==
    { NoData,
      (Str("len") :> Num(2)) @@ (Str("name") :> Text(<<97, 98>>))
        @@ (Str("x") :> Num(5)) @@ (Str("blk") :> Buf(<<1, 2>>)),
      (Str("len") :> Num(1)) @@ (Str("name") :> Text(<<97>>)) }

LayoutBufs == { <<2, 97, 98, 1, 3, 4>>, <<0, 1, 97, 98, 1, 2>>, <<1>> }

LayoutSets == { <<"x", Num(5)>>, <<"name", Text(<<97>>)>> }

CodecInts ==
    {<<"uint16", "len", 0>>, <<"uint8", "x", 2>>,
     <<"int64", "x", 0>>, <<"uint64", "x", 0>>}

CodecData ==
    { NoData,
      (Str("len") :> Num(2)) @@ (Str("name") :> Text(<<97, 98>>))
        @@ (Str("x") :> Num(5)) @@ (Str("blk") :> Buf(<<1, 2>>)),
      (Str("len") :> Num(1)) @@ (Str("name") :> Text(<<97>>))
        @@ (Str("x") :> Num(1048576)) @@ (Str("blk") :> Buf(<<3, 4>>)),
      (Str("len") :> Num(2)) @@ (Str("name") :> Buf(<<97>>))
        @@ (Str("blk") :> Buf(<<1>>)),
      (Str("len") :> Num(0)) @@ (Str("name") :> Text(<<>>)),
      (Str("len") :> Num(2)) @@ (Str("name") :> Text(<<233>>))
        @@ (Str("x") :> Num(7)) }

\* The buffers given to unpack: the patterns of 2^53 and of 2^53 - 1 in both
\* byte orders, two records with a length prefix, and a buffer that is too
\* short.
CodecBufs ==
    { <<0, 32, 0, 0, 0, 0, 0, 0>>, <<0, 0, 0, 0, 0, 0, 32, 0>>,
      <<0, 31, 255, 255, 255, 255, 255, 255>>,
      <<255, 255, 255, 255, 255, 255, 31, 0>>,
      <<2, 97, 98, 1>>, <<0, 2, 97, 98>>, <<1>> }

\* The assignments made through a RecordView: property and value.
CodecSets ==
    { <<"blk", Buf(<<1>>)>>, <<"blk", Buf(<<1, 2>>)>>,
      <<"name", Buf(<<97>>)>>, <<"name", Text(<<97>>)>>,
      <<"x", Num(5)>> }

\* --------------------------------------------------------- specifications

\* createNewStructDef(opts): new StructDef(opts).
Created(le, mode) ==
    /\ fields = <<>>
    /\ size = 0
    /\ staticSized = TRUE
    /\ littleEndian = le
    /\ int64mode = mode
    /\ props = <<>>
    /\ call = Call("new", "none", Str(""), 0, FALSE, FALSE)
    /\ data = NoData
    /\ buf = <<>>
    /\ pre = <<>>
    /\ rt = NoRoundTrip

\* Layout and resolution: a schema of up to MaxFields fields without options
\* is built, then packed, unpacked and wrapped.
Init == Created(FALSE, "strict")

Next ==
    \/ \E a \in LayoutInts :
          CanDefine(MaxFields, a[2]) /\ DefineInt(a[1], a[2], a[3])
    \/ CanDefine(MaxFields, "name") /\ DefineStringSized("name", 2)
    \/ CanDefine(MaxFields, "name") /\ DefineStringNamed("name", "len")
    \/ CanDefine(MaxFields, "blk") /\ DefineBuffer("blk", 2)
    \/ \E d \in PackData(LayoutData) : Pack(d, TRUE, CallerBuf, 0, 0)
    \/ \E b \in LayoutBufs : Unpack(b, 0)
    \/ \E a \in LayoutSets : SetField(a[1], a[2], CallerBuf)

Spec == Init /\ [][Next]_vars

\* The codecs: a schema of up to MaxCodecFields fields in either byte order,
\* values of every type, and pack's result given to unpack and back.
InitCodec == \E le \in BOOLEAN, mode \in Modes : Created(le, mode)

NextCodec ==
    \/ \E a \in CodecInts :
          CanDefine(MaxCodecFields, a[2]) /\ DefineInt(a[1], a[2], a[3])
    \/ CanDefine(MaxCodecFields, "name") /\ DefineStringSized("name", 2)
    \/ CanDefine(MaxCodecFields, "name") /\ DefineStringNamed("name", "len")
    \/ CanDefine(MaxCodecFields, "blk") /\ DefineBuffer("blk", 2)
    \/ \E d \in PackData(CodecData), fill \in AllocFills :
          Pack(d, FALSE, <<>>, fill, 1)
    \/ \E d \in PackData(CodecData) : Pack(d, TRUE, CallerBuf, 0, 0)
    \/ /\ rt.stage = 2 /\ call.err = "none"
       /\ \E fill \in AllocFills : Pack(data, FALSE, <<>>, fill, 3)
    \/ \E b \in CodecBufs : Unpack(b, 0)
    \/ /\ rt.stage = 1 /\ call.err = "none"
       /\ Unpack(buf, 2)
    \/ \E a \in CodecSets : SetField(a[1], a[2], CallerBuf)

SpecCodec == InitCodec /\ [][NextCodec]_vars

\* ------------------------------------------------------------- properties

\* The sum of the current sizes of the first n fields of fs.
RECURSIVE SumSizes(_, _)
SumSizes(fs, n) == IF n = 0 THEN 0 ELSE SumSizes(fs, n - 1) + fs[n].size

\* The index of the deferred text field and of the field it names (0: none).
DeferredAt == FindDeferred(fields)
SizeFieldAt ==
    IF DeferredAt = 0 THEN 0
    ELSE FindField(fields, Str(fields[DeferredAt].sizeFieldName))

\* The index of the field the last call was about (0: none).
CallFieldAt == FindField(fields, call.name)

\* The eight bytes, most significant first, of the two's complement of n.
Int64Bytes(n) ==
    IF n >= 0 THEN <<0, 0, 0, 0>> \o WordOf(n)
    ELSE LET w == WordOf((n + 2147483647) + 1)
         IN <<255, 255, 255, 255, w[1] + 128, w[2], w[3], w[4]>>

\* C1: in every state, each field's offset is the sum of the current sizes
\* of the fields declared before it, also for the fields declared after the
\* deferred text field.
C1_OffsetIsSumOfSizes ==
    \A j \in 1..Len(fields) : fields[j].offset = SumSizes(fields, j - 1)

\* No field of the schema is deferred, and each has its reader and writer.
FixedOnly ==
    /\ staticSized
    /\ \A i \in 1..Len(fields) :
          ~fields[i].hasRef /\ fields[i].codec.fn # "undefined"

\* v is a value that field f represents: an unsigned integer of the field's
\* width, a number for a signed 64-bit field, a text of exactly the field's
\* size in bytes, a block of exactly the field's size.
InRange(f, v) ==
    CASE f.type \in {"uint8", "uint16be", "uint16le"} ->
            v.type = "number" /\ v.num >= 0 /\ v.num < Pow2(8 * f.size)
      [] f.type \in {"uint64be", "uint64le"} -> v.type = "number" /\ v.num >= 0
      [] f.type \in {"int64be", "int64le"} -> v.type = "number"
      [] f.type = "string" ->
            v.type = "string" /\ Len(Utf8Encode(v.seq)) = f.size
      [] OTHER -> v.type = "buffer" /\ Len(v.seq) = f.size

\* d gives every named field of the schema a value in range.
ValuesInRange(d) ==
    \A i \in 1..Len(fields) :
       fields[i].name.type = "string" =>
          /\ fields[i].name \in DOMAIN d
          /\ InRange(fields[i], d[fields[i].name])

\* C2: for a schema of fixed-size fields and in-range values, pack returns,
\* unpack of the packed bytes returns the values, and pack of the unpacked
\* values returns the same bytes.
C2_FixedRoundTrip ==
    (FixedOnly /\ rt.stage >= 1 /\ ValuesInRange(rt.values)) =>
       /\ call.err = "none"
       /\ rt.stage = 2 => data = rt.values
       /\ rt.stage = 3 => buf = rt.bytes

\* The schema uint16('len').string('name', 'len').
LenNameSchema ==
    /\ Len(fields) = 2
    /\ fields[1].name = Str("len")
    /\ fields[1].type \in {"uint16be", "uint16le"}
    /\ fields[2].name = Str("name")
    /\ fields[2].type = "string"
    /\ fields[2].hasRef
    /\ fields[2].sizeFieldName = "len"
    /\ props[Str("name")].configurable

\* d is {len: n, name: s} for a text s of n bytes.
LenNameValues(d) ==
    /\ DOMAIN d = {Str("len"), Str("name")}
    /\ d[Str("len")].type = "number"
    /\ d[Str("name")].type = "string"
    /\ Len(Utf8Encode(d[Str("name")].seq)) = d[Str("len")].num

\* C3: for the schema uint16 `len`, text `name` sized by `len`, and values
\* {len: n, name: s} with s of n bytes, pack without a buffer returns a buffer
\* of 2 + n bytes, and unpack of that buffer returns {len: n, name: s}.
C3_VariableRoundTrip ==
    (LenNameSchema /\ rt.stage \in {1, 2} /\ LenNameValues(rt.values)) =>
       /\ call.err = "none"
       /\ rt.stage = 1 => Len(buf) = 2 + rt.values[Str("len")].num
       /\ rt.stage = 2 => data = rt.values

C3_Witness ==
    /\ LenNameSchema
    /\ rt.stage = 2
    /\ LenNameValues(rt.values)
    /\ rt.values[Str("len")].num = 2
    /\ call.op = "unpack"
    /\ data = rt.values

\* The last call decoded `pattern` (given most significant byte first) as
\* the one 64-bit field of a schema in strict mode, in the field's byte order.
DecodedStrict(pattern) ==
    /\ call.op = "unpack"
    /\ int64mode = "strict"
    /\ Len(fields) = 1
    /\ Is64(fields[1].type)
    /\ buf = IF IsLE(fields[1].type) THEN Reverse(pattern) ELSE pattern

\* C4: in strict mode the pattern of 2^53 (high half 0x00200000, low half 0)
\* fails to decode, and the pattern of 2^53 - 1 (high half 0x001FFFFF, low
\* half 0xFFFFFFFF) decodes to exactly 2^53 - 1, in both byte orders.
C4_StrictBoundary ==
    /\ DecodedStrict(<<0, 32, 0, 0, 0, 0, 0, 0>>) => call.err # "none"
    /\ DecodedStrict(<<0, 31, 255, 255, 255, 255, 255, 255>>) =>
          /\ call.err = "none"
          /\ fields[1].name \in DOMAIN data
          /\ data[fields[1].name].type = "number"
          /\ Int64Bytes(data[fields[1].name].num)
                = <<0, 31, 255, 255, 255, 255, 255, 255>>

\* Field i is a text or block field and the last call gave it a block whose
\* length is not the field's size.
WrongLength(i) ==
    /\ fields[i].type \in {"string", "buffer"}
    /\ fields[i].codec.fn # "undefined"
    /\ fields[i].name \in DOMAIN data
    /\ data[fields[i].name].type = "buffer"
    /\ Len(data[fields[i].name].seq) # fields[i].size

\* C5: a pack or an assignment through a RecordView that gives a text or
\* block field a block of another length than the field's size throws, and the
\* bytes of the buffer in that field's range are what they were before the
\* field's write.
C5_ExactSize ==
    /\ (call.op = "set" /\ CallFieldAt # 0 /\ WrongLength(CallFieldAt)) =>
          call.err = "Error"
    /\ (call.op = "pack" /\ \E i \in 1..Len(fields) : WrongLength(i)) =>
          call.err # "none"
    /\ (call.op \in {"pack", "set"} /\ call.err = "Error") =>
          /\ CallFieldAt # 0
          /\ WrongLength(CallFieldAt)
          /\ Len(buf) = Len(pre)
          /\ \A k \in 1..Len(buf) :
                (/\ k > fields[CallFieldAt].offset
                 /\ k <= fields[CallFieldAt].offset + fields[CallFieldAt].size)
                   => buf[k] = pre[k]

C5_Witness ==
    /\ call.op = "pack"
    /\ call.err = "Error"
    /\ call.name = Str("name")
    /\ WrongLength(CallFieldAt)
    /\ fields[CallFieldAt].offset + fields[CallFieldAt].size <= Len(buf)

\* C6: a pack, an unpack or an assignment through a RecordView on a schema
\* without a deferred field leaves the field list (every field's size, offset
\* and codec), the total size and staticSized as they were.
C6_StaticSchemaUnchanged ==
    [][((\A i \in 1..Len(fields) : ~fields[i].hasRef)
        /\ call'.op \in {"pack", "unpack", "set"})
       => (fields' = fields /\ size' = size /\ staticSized' = staticSized)]_vars

C6_Witness ==
    /\ \A i \in 1..Len(fields) : ~fields[i].hasRef
    /\ \E i \in 1..Len(fields) : fields[i].type = "string"
    /\ call.op = "unpack"
    /\ call.err = "none"

\* C7: a field declared by an integer definer without a name is no key of
\* the record unpack returns, has its type's width as size, is counted in the
\* total size, and the field after it sits that width further on.
C7_UnnamedFields ==
    /\ size = SumSizes(fields, Len(fields))
    /\ \A i \in 1..Len(fields) :
          fields[i].name.type = "number" =>
             /\ fields[i].size = IntSize(fields[i].type)
             /\ call.op = "unpack" => fields[i].name \notin DOMAIN data
             /\ i < Len(fields) =>
                   fields[i + 1].offset
                      = fields[i].offset + IntSize(fields[i].type)
    /\ call.op = "unpack" => \A k \in DOMAIN data : k.type = "string"

C7_Witness ==
    /\ call.op = "unpack"
    /\ call.err = "none"
    /\ \E i \in 1..(Len(fields) - 1) :
          /\ fields[i].name.type = "number"
          /\ fields[i].type \in {"uint16be", "uint16le"}
          /\ fields[i + 1].name \in DOMAIN data

\* bs cut or padded with zero bytes to n bytes.
Padded(bs, n) ==
    IF Len(bs) >= n THEN SubSeq(bs, 1, n) ELSE bs \o Filled(n - Len(bs), 0)

\* The bytes that encode value v in field f; no value encodes as zero bytes.
Encoding(f, v) ==
    CASE v.type = "number" /\ f.type \in {"uint8", "uint16be", "uint16le"} ->
            LET be == SubSeq(WordOf(v.num), 5 - f.size, 4)
            IN IF IsLE(f.type) THEN Reverse(be) ELSE be
      [] v.type = "number" /\ Is64(f.type) ->
            IF IsLE(f.type) THEN Reverse(Int64Bytes(v.num))
            ELSE Int64Bytes(v.num)
      [] v.type = "string" -> Padded(Utf8Encode(v.seq), f.size)
      [] v.type = "buffer" -> Padded(v.seq, f.size)
      [] OTHER -> Filled(f.size, 0)

\* The value pack is to write for field f: data[name] if name is a key of
\* data, else the field's default, else none.
Chosen(f, d) ==
    IF f.name \in DOMAIN d THEN d[f.name]
    ELSE IF f.hasValue THEN f.value ELSE Undef

\* C8: after a pack into the caller's buffer, the byte range of every field
\* holds the encoding of data[name] if name is a key of data, else of the
\* field's default, else zero bytes.
C8_PackPrecedence ==
    (call.op = "pack" /\ call.given /\ call.err = "none") =>
       \A i \in 1..Len(fields) :
          Bytes(buf, fields[i].offset, fields[i].size)
             = Encoding(fields[i], Chosen(fields[i], data))

\* The step is a definer call with a name the schema has a field of.
ReRegistration == call'.op = "define" /\ ~call'.fresh

C10_ResolutionOverwrites ==
    /\ size = SumSizes(fields, Len(fields))
    /\ (DeferredAt # 0 /\ call.op = "pack") =>
          fields[DeferredAt].size =
             (IF fields[SizeFieldAt].name \in DOMAIN data
              THEN data[fields[SizeFieldAt].name].num
              ELSE IF fields[SizeFieldAt].hasValue
              THEN fields[SizeFieldAt].value.num
              ELSE 0)
    /\ (/\ DeferredAt # 0
        /\ call.op = "unpack"
        /\ (call.err = "none" \/ CallFieldAt >= DeferredAt)) =>
          /\ fields[SizeFieldAt].name \in DOMAIN data
          /\ fields[DeferredAt].size = data[fields[SizeFieldAt].name].num

C10_Witness ==
    /\ DeferredAt # 0
    /\ call.op = "pack"
    /\ call.err = "none"
    /\ fields[SizeFieldAt].hasValue
    /\ fields[SizeFieldAt].name \in DOMAIN data
    /\ fields[DeferredAt].size = 1
    /\ fields[DeferredAt].size # fields[SizeFieldAt].value.num

====
